---- MODULE Spec2Model ----
(***************************************************************************)
(* The authentication-and-entitlement gate of the Shopify currency         *)
(* converter app.  Two server files of the repository are modelled:        *)
(*   build = "server"   src/server/index.js                                *)
(*   build = "part001"  src/unnamed/part_001, the server that starts at    *)
(*                      line 1135 of that file (token exchange, billing    *)
(*                      status cache, cancel, uninstall webhook)           *)
(* A string of the program is a sequence of pieces (atoms and separators), *)
(* so that concatenation, URL encoding and parsing are computed.           *)
(* A falsy string ('' or undefined) is the empty string "" of the model.   *)
(***************************************************************************)
EXTENDS Integers, Sequences, FiniteSets, TLC

VARIABLES
  build,               \* which server file is running
  timezone,            \* the time zone of the host: Date's local time
  storage,             \* memorySessionStorage.storage, in Map insertion order
  SUBSCRIPTION_CACHE,  \* shop -> cache entry
  now,                 \* Date.now(), in milliseconds
  reqs,                \* requests suspended at an await, by slot
  last,                \* ctx of the request that finished most recently
  served,              \* number of requests received so far
  exchanges,           \* number of credentials issued by the remote services
  handled              \* shop -> requests with a valid assertion for it that
                       \* authenticateRequest passed on to next() (history)

vars ==
  <<build, timezone, storage, SUBSCRIPTION_CACHE, now, reqs, last, served, exchanges,
    handled>>

-----------------------------------------------------------------------------
(* Bounds of the model *)

MaxRequests == 3

MaxBillingRequests == 2

Slots == {1, 2}

ShopA == "a.myshopify.com"

ShopB == "b.myshopify.com"

Shops == {ShopA, ShopB}

Builds == {"server", "part001"}

Timezones == {"UTC", "Europe/Sofia"}

-----------------------------------------------------------------------------
(* Sessions and the session store *)

NoSession == [id |-> <<>>, shop |-> "", isOnline |-> FALSE, accessToken |-> ""]

Session(id, shop, accessToken) ==
  [id |-> id, shop |-> shop, isOnline |-> FALSE, accessToken |-> accessToken]

IndexOfId(store, id) ==
  IF \E k \in 1..Len(store) : store[k].id = id
  THEN CHOOSE k \in 1..Len(store) : store[k].id = id
  ELSE 0

storeSession_append(store, session) == Append(store, session)

\* Map.set: an existing key keeps its position, a new key goes last
storeSession(store, session) ==
  IF IndexOfId(store, session.id) = 0
  THEN Append(store, session)
  ELSE [store EXCEPT ![IndexOfId(store, session.id)] = session]

loadSession(store, id) ==
  IF IndexOfId(store, id) = 0 THEN NoSession ELSE store[IndexOfId(store, id)]

deleteSession_nothing(store, id) == store

deleteSession(store, id) ==
  SelectSeq(store, LAMBDA s : s.id # id)

findSessionsByShop_all(store, shop) == store

findSessionsByShop(store, shop) ==
  SelectSeq(store, LAMBDA s : s.shop = shop)

\* sessions.find(s => !s.isOnline): the first match, or undefined
FindOffline(sessions) ==
  IF SelectSeq(sessions, LAMBDA s : ~s.isOnline) = <<>>
  THEN NoSession
  ELSE Head(SelectSeq(sessions, LAMBDA s : ~s.isOnline))

-----------------------------------------------------------------------------
(* Strings, queries and URLs *)

\* ctx.query: a sequence of <<key, values>>, values the array of the key's
\* occurrences (one element for a plain string)
QueryGet(query, key) ==
  IF \E k \in 1..Len(query) : query[k][1] = key
  THEN query[CHOOSE k \in 1..Len(query) : query[k][1] = key][2]
  ELSE <<>>

\* JS truthiness of a query value: undefined and '' are falsy
Truthy(values) == values # <<>> /\ values # <<"">>

\* String(array): the elements joined by ","
RECURSIVE JoinComma(_)
JoinComma(values) ==
  IF Len(values) <= 1 THEN values
  ELSE <<Head(values), ",">> \o JoinComma(Tail(values))

\* `${value}` of a query value
StringOrUndefined(values) == IF values = <<>> THEN <<"undefined">> ELSE JoinComma(values)

\* new URLSearchParams(object): one pair per key, the value stringified
URLSearchParams(query) ==
  [k \in 1..Len(query) |-> <<query[k][1], JoinComma(query[k][2])>>]

ParamsDelete_nothing(params, key) == params

\* URLSearchParams.delete
ParamsDelete(params, key) ==
  SelectSeq(params, LAMBDA p : p[1] # key)

EncodePiece_identity(piece) == piece

\* percent-encoding of one piece
EncodePiece(piece) ==
  CASE piece = "?" -> "%3F"
    [] piece = "=" -> "%3D"
    [] piece = "&" -> "%26"
    [] piece = "," -> "%2C"
    [] piece = "%3F" -> "%253F"
    [] piece = "%3D" -> "%253D"
    [] piece = "%26" -> "%2526"
    [] piece = "%2C" -> "%252C"
    [] OTHER -> piece

EncodeString(str) == [k \in 1..Len(str) |-> EncodePiece(str[k])]

\* URLSearchParams.toString()
RECURSIVE ParamsToString(_)
ParamsToString(params) ==
  IF params = <<>> THEN <<>>
  ELSE LET one == <<EncodePiece(Head(params)[1]), "=">> \o EncodeString(Head(params)[2])
       IN IF Len(params) = 1 THEN one
          ELSE one \o <<"&">> \o ParamsToString(Tail(params))

\* what a URL parser reads back: percent-decoding of one piece
DecodePiece(piece) ==
  CASE piece = "%3F" -> "?"
    [] piece = "%3D" -> "="
    [] piece = "%26" -> "&"
    [] piece = "%2C" -> ","
    [] piece = "%253F" -> "%3F"
    [] piece = "%253D" -> "%3D"
    [] piece = "%2526" -> "%26"
    [] piece = "%252C" -> "%2C"
    [] OTHER -> piece

DecodeString(str) == [k \in 1..Len(str) |-> DecodePiece(str[k])]

IndexOfPiece(str, piece) ==
  IF \E k \in 1..Len(str) : str[k] = piece
  THEN CHOOSE k \in 1..Len(str) : str[k] = piece /\ \A j \in 1..(k - 1) : str[j] # piece
  ELSE 0

\* key=value, the value decoded
ParsePair(str) ==
  IF IndexOfPiece(str, "=") = 0 THEN <<DecodeString(str), <<>>>>
  ELSE << DecodeString(SubSeq(str, 1, IndexOfPiece(str, "=") - 1)),
          DecodeString(SubSeq(str, IndexOfPiece(str, "=") + 1, Len(str))) >>

\* a query string split at "&"
RECURSIVE ParseQueryString(_)
ParseQueryString(str) ==
  IF str = <<>> THEN <<>>
  ELSE IF IndexOfPiece(str, "&") = 0 THEN <<ParsePair(str)>>
  ELSE <<ParsePair(SubSeq(str, 1, IndexOfPiece(str, "&") - 1))>>
         \o ParseQueryString(SubSeq(str, IndexOfPiece(str, "&") + 1, Len(str)))

\* a URL split at its first "?"
UrlPath(url) ==
  IF IndexOfPiece(url, "?") = 0 THEN url ELSE SubSeq(url, 1, IndexOfPiece(url, "?") - 1)

UrlParams(url) ==
  IF IndexOfPiece(url, "?") = 0 THEN <<>>
  ELSE ParseQueryString(SubSeq(url, IndexOfPiece(url, "?") + 1, Len(url)))

ParamValues(params, key) == { params[k][2] : k \in { j \in 1..Len(params) : params[j][1] = <<key>> } }

\* the shopify-reload target of a bounce redirect
ReloadTarget(url) == CHOOSE v \in ParamValues(UrlParams(url), "shopify-reload") : TRUE

\* the pieces of a string as one string
RECURSIVE Flatten(_)
Flatten(str) == IF str = <<>> THEN "" ELSE Head(str) \o Flatten(Tail(str))

\* ctx.query of a request for a URL with these parameters: one entry per
\* key, its values in their order
RECURSIVE QueryOfParams(_)
QueryOfParams(params) ==
  IF params = <<>> THEN <<>>
  ELSE LET key == Head(params)[1]
           same == SelectSeq(params, LAMBDA p : p[1] = key)
       IN << <<Flatten(key), [k \in 1..Len(same) |-> Flatten(same[k][2])]>> >>
            \o QueryOfParams(SelectSeq(params, LAMBDA p : p[1] # key))

\* url.searchParams.set(key, value) on the query of the URL
QuerySet(query, key, value) ==
  IF \E k \in 1..Len(query) : query[k][1] = key
  THEN [k \in 1..Len(query) |-> IF query[k][1] = key THEN <<key, <<value>>>> ELSE query[k]]
  ELSE Append(query, <<key, <<value>>>>)

-----------------------------------------------------------------------------
(* Request contexts *)

NoHeader == [scheme |-> "", credentials |-> ""]

Bearer(token) == [scheme |-> "Bearer ", credentials |-> token]

NoState ==
  [shop |-> "", session |-> NoSession,
   hasActiveSubscription |-> "undefined", showBillingPrompt |-> FALSE]

\* a JSON response body of the billing status routes
Data(hasActiveSubscription, shop, subscriptions, activeCount, message) ==
  [hasActiveSubscription |-> hasActiveSubscription, shop |-> shop,
   subscriptions |-> subscriptions, activeCount |-> activeCount, message |-> message]

NoData == Data("undefined", "", <<>>, 0, "")

\* SUBSCRIPTION_CACHE[shop]: undefined, or {timestamp, data}
NoEntry == [present |-> FALSE, timestamp |-> 0, data |-> NoData]

Entry(timestamp, data) == [present |-> TRUE, timestamp |-> timestamp, data |-> data]

\* ctx, with the locals of the handlers that hold it: the subscriptions a
\* query answered, the value of new Date() they were judged at and the
\* verdict; the cache entry read and the value of Date.now() it was read at;
\* the cache entry that a delete of the handler removed and the time of the
\* delete; the requests that were waiting for a token exchange of the shop
\* when an uninstall webhook deleted its sessions
NewCtx(path, authorization, query) ==
  [path |-> path, authorization |-> authorization, query |-> query,
   pc |-> "start", encodedSessionToken |-> <<>>, shop |-> "", found |-> NoSession,
   state |-> NoState, status |-> 404, location |-> <<>>,
   retryHeader |-> FALSE, body |-> "", data |-> NoData,
   subscriptions |-> <<>>, checkedAt |-> -1, hasValidSubscription |-> "undefined",
   cached |-> NoEntry, readAt |-> -1, deleted |-> NoEntry,
   deletedAt |-> -1, exchanging |-> {}, log |-> <<>>]

Idle == [NewCtx("", NoHeader, <<>>) EXCEPT !.pc = "idle"]

Logged(ctx, event) == [ctx EXCEPT !.log = Append(@, event)]

Called(ctx, event) == \E k \in 1..Len(ctx.log) : ctx.log[k] = event

CountOf(ctx, event) == Cardinality({k \in 1..Len(ctx.log) : ctx.log[k] = event})

\* ctx.redirect(url)
Redirect(ctx, url) == [ctx EXCEPT !.status = 302, !.location = url, !.pc = "done"]

-----------------------------------------------------------------------------
(* Identity assertions: the decode oracle *)

ValidTokens == {"jwt.a", "jwt.b"}

DestShop(token) == IF token = "jwt.a" THEN ShopA ELSE ShopB

\* shopify.session.decodeSessionToken: a payload with dest, or a throw
decodeSessionToken(encoded) ==
  IF Len(encoded) = 1 /\ encoded[1] \in ValidTokens
  THEN [ok |-> TRUE, dest |-> <<"https://", DestShop(encoded[1])>>]
  ELSE [ok |-> FALSE, dest |-> <<>>]

\* new URL(dest).hostname
Hostname(dest) == dest[2]

-----------------------------------------------------------------------------
(* authenticateRequest *)

getSessionTokenHeader(ctx) == ctx.authorization.credentials

getSessionTokenFromUrlParam_none(ctx) == <<>>

\* ctx.query.id_token
getSessionTokenFromUrlParam(ctx) == QueryGet(ctx.query, "id_token")

ExtractToken_queryFirst(ctx) ==
  IF Truthy(getSessionTokenFromUrlParam(ctx))
  THEN getSessionTokenFromUrlParam(ctx)
  ELSE IF getSessionTokenHeader(ctx) # "" THEN <<getSessionTokenHeader(ctx)>> ELSE <<>>

\* getSessionTokenHeader(ctx) || getSessionTokenFromUrlParam(ctx)
ExtractToken(ctx) ==
  IF getSessionTokenHeader(ctx) # ""
  THEN <<getSessionTokenHeader(ctx)>>
  ELSE getSessionTokenFromUrlParam(ctx)

isDocumentRequest_always(ctx) == TRUE

\* !ctx.headers['authorization']
isDocumentRequest(ctx) ==
  ctx.authorization.scheme = "" /\ ctx.authorization.credentials = ""

redirectToSessionTokenBouncePage(ctx) ==
  LET stripped == ParamsDelete(URLSearchParams(ctx.query), "id_token")
      reload   == <<ctx.path, "?">> \o ParamsToString(stripped)
      final    == Append(stripped, <<"shopify-reload", reload>>)
  IN Redirect(ctx, <<"/session-token-bounce", "?">> \o ParamsToString(final))

RetryResponse_noReturn(ctx) ==
  [ctx EXCEPT !.status = 401, !.retryHeader = TRUE,
              !.body = "Unauthorized", !.pc = "next"]

\* ctx.status = 401 with the retry header, and return
RetryResponse(ctx) ==
  [ctx EXCEPT !.status = 401, !.retryHeader = TRUE,
              !.body = "Unauthorized", !.pc = "done"]

\* the branch taken when no token is found
NoTokenResponse(ctx) ==
  IF isDocumentRequest(ctx)
  THEN redirectToSessionTokenBouncePage(ctx)
  ELSE RetryResponse(ctx)

InvalidTokenResponse_always401(ctx) == RetryResponse(ctx)

\* the catch branch: decodeSessionToken threw
InvalidTokenResponse(ctx) ==
  IF isDocumentRequest(ctx)
  THEN redirectToSessionTokenBouncePage(ctx)
  ELSE RetryResponse(ctx)

\* the shop the request is resolved for
DeriveShopServer(ctx, decoded) == Hostname(decoded.dest)

\* part_001 replaces it by the shop query parameter when that one differs
\* (the requests of the model carry at most one shop parameter)
DeriveShopPart001(ctx, decoded) ==
  LET queryShop == QueryGet(ctx.query, "shop")
  IN IF Truthy(queryShop) /\ queryShop[1] # Hostname(decoded.dest)
     THEN queryShop[1]
     ELSE Hostname(decoded.dest)

DeriveShop(ctx, decoded) ==
  IF build = "server" THEN DeriveShopServer(ctx, decoded)
  ELSE DeriveShopPart001(ctx, decoded)

NeedsExchange(session) ==
  session = NoSession \/ session.accessToken = "" \/ session.accessToken = "placeholder"

SessionIdServer(shop) == <<shop, "_offline">>

SessionIdPart001(shop) == <<"offline_", shop>>

SessionIdCallback(shop) == <<shop, "-offline">>

SessionId(shop) ==
  IF build = "server" THEN SessionIdServer(shop) ELSE SessionIdPart001(shop)

\* ctx.state.shop = shop; ctx.state.session = session; then next() is due
Attach(ctx, session) ==
  [ctx EXCEPT !.state.shop = ctx.shop, !.state.session = session, !.pc = "next"]

Out(ctx, store, cache) == [ctx |-> ctx, storage |-> store, cache |-> cache]

\* authenticateRequest up to its first network await: the token exchange
\* call, or the attach of a stored session
authenticateRequest(ctx) ==
  LET encoded == ExtractToken(ctx)
      decoded == decodeSessionToken(encoded)
      shop    == DeriveShop(ctx, decoded)
      session == FindOffline(findSessionsByShop(storage, shop))
      c1      == [ctx EXCEPT !.encodedSessionToken = encoded]
  IN IF ~Truthy(encoded) THEN NoTokenResponse(ctx)
     ELSE IF ~decoded.ok THEN InvalidTokenResponse(c1)
     ELSE IF NeedsExchange(session)
          THEN Logged([c1 EXCEPT !.shop = shop, !.found = session, !.pc = "tokenExchange"],
                      "tokenExchange")
          ELSE Attach([c1 EXCEPT !.shop = shop, !.found = session], session)

ExchangeFailed_retry(ctx, body) ==
  Logged([ctx EXCEPT !.pc = "tokenExchange"], "tokenExchange")

ExchangeFailed_continues(ctx, body) == [ctx EXCEPT !.pc = "next"]

\* the catch of the token exchange: ctx.status = 500 and return
ExchangeFailed(ctx, body) ==
  [ctx EXCEPT !.status = 500, !.body = body, !.pc = "done"]

\* what shopify.auth.tokenExchange can answer: a throw, or a result carrying
\* the credential at the top level, under .session, or nowhere
TokenExchangeResults(token) ==
  { [threw |-> TRUE,  accessToken |-> "",    sessionToken |-> ""],
    [threw |-> FALSE, accessToken |-> token, sessionToken |-> ""],
    [threw |-> FALSE, accessToken |-> "",    sessionToken |-> token],
    [threw |-> FALSE, accessToken |-> "",    sessionToken |-> ""] }

\* src/server/index.js: the result's accessToken is stored as it is
AfterTokenExchangeServer(ctx, result) ==
  IF result.threw
  THEN Out(ExchangeFailed(ctx, "Token exchange failed"), storage, SUBSCRIPTION_CACHE)
  ELSE LET session == Session(SessionIdServer(ctx.shop), ctx.shop, result.accessToken)
       IN Out(Attach(Logged(ctx, "storeSession"), session),
              storeSession(storage, session), SUBSCRIPTION_CACHE)

\* part_001: accessToken || session?.accessToken, and a 500 when both are missing
AfterTokenExchangePart001(ctx, result) ==
  LET accessToken == IF result.accessToken # "" THEN result.accessToken
                     ELSE result.sessionToken
      session == Session(SessionIdPart001(ctx.shop), ctx.shop, accessToken)
  IN IF result.threw
     THEN Out(ExchangeFailed(ctx, "Token exchange failed"), storage, SUBSCRIPTION_CACHE)
     ELSE IF accessToken = ""
     THEN Out(ExchangeFailed(ctx, "Token exchange failed - no access token"),
              storage, SUBSCRIPTION_CACHE)
     ELSE Out(Attach(Logged(ctx, "storeSession"), session),
              storeSession(storage, session), SUBSCRIPTION_CACHE)

AfterTokenExchange(ctx, result) ==
  IF build = "server" THEN AfterTokenExchangeServer(ctx, result)
  ELSE AfterTokenExchangePart001(ctx, result)

-----------------------------------------------------------------------------
(* Route handlers behind the middleware *)

\* router.get('/api/test', authenticateRequest, ...)
apiTest(ctx) == [ctx EXCEPT !.status = 200, !.body = "Success! Session is valid", !.pc = "done"]

BoolStr(b) == IF b THEN "true" ELSE "false"

\* router.get('/api/shop', ...): up to its fetch
apiShop(ctx) == Logged([ctx EXCEPT !.pc = "shopFetch"], "shopFetch")

\* the fetch answers: response.ok, or a throw into the handler's own catch
afterShopFetch(ctx, ok) ==
  IF ok THEN [ctx EXCEPT !.status = 200, !.body = "success", !.pc = "done"]
  ELSE [ctx EXCEPT !.status = 500, !.body = "Failed to fetch shop info", !.pc = "done"]

\* router.get('/api/billing/status', ...) of src/server/index.js
apiBillingStatus(ctx) ==
  [ctx EXCEPT !.status = 200,
              !.data = Data(ctx.state.hasActiveSubscription, ctx.state.shop, <<>>, 0, ""),
              !.pc = "done"]

\* router.get('(/)', ...) of src/server/index.js
mainRoute(ctx) ==
  IF ~Truthy(QueryGet(ctx.query, "shop"))
  THEN [ctx EXCEPT !.status = 400, !.body = "Missing shop parameter", !.pc = "done"]
  ELSE [ctx EXCEPT !.status = 200, !.body = "html", !.pc = "done"]

-----------------------------------------------------------------------------
(* Dates: the model's clock counts milliseconds from 2024-10-25T00:00Z.      *)
(* Europe/Sofia leaves summer time (UTC+3) for UTC+2 on 2024-10-27T01:00Z.   *)

HOUR == 60 * 60 * 1000

DAY == 24 * HOUR

DstEnd == 2 * DAY + HOUR

\* local time minus UTC at instant t
UtcOffset(t) ==
  IF timezone = "UTC" THEN 0
  ELSE IF t < DstEnd THEN 3 * HOUR ELSE 2 * HOUR

\* the local date and time of instant t, as milliseconds on the local calendar
LocalTime(t) == t + UtcOffset(t)

\* the instant of a local date and time (the earlier one where two exist)
UtcOfLocal(local) ==
  IF timezone = "UTC" THEN local
  ELSE IF local - 3 * HOUR < DstEnd THEN local - 3 * HOUR ELSE local - 2 * HOUR

\* d.setDate(d.getDate() + days): the same local time of day, days later
setDate(t, days) == UtcOfLocal(LocalTime(t) + days * DAY)

-----------------------------------------------------------------------------
(* The entitlement gate of src/server/index.js *)

Subscription(status, trialDays, createdAt) ==
  [status |-> status, trialDays |-> trialDays, createdAt |-> createdAt]

\* subscriptions.some(...) at new Date() = t
hasValidSubscription(subscriptions, t) ==
  \E k \in 1..Len(subscriptions) :
    LET sub == subscriptions[k]
    IN \/ sub.status = "ACTIVE"
       \/ /\ sub.status = "PENDING"
          /\ sub.trialDays > 0
          /\ t < setDate(sub.createdAt, sub.trialDays)

IsBillingPath_none(path) == FALSE

\* ctx.path.includes('/api/billing') || ctx.path.includes('/api/subscription'),
\* and ctx.path.startsWith('/api/billing'), over the routes of the router
IsBillingPath(path) ==
  path \in {"/api/billing/create", "/api/billing/callback", "/api/billing/status",
            "/api/billing/test"}

GateNext(ctx) == [ctx EXCEPT !.pc = "gateNext"]

\* requiresSubscription up to client.query
requiresSubscription(ctx) ==
  Logged([ctx EXCEPT !.pc = "subscriptionQuery"], "subscriptionQuery")

subscriptionCheckError_redirect(ctx) ==
  Redirect(ctx, <<"/", "?", "billing", "=", "required">>)

\* the catch of requiresSubscription
subscriptionCheckError(ctx) == GateNext(ctx)

\* what client.query can answer: a throw (a body without data among them),
\* or a list of subscriptions
QueryResult(threw, subscriptions) == [threw |-> threw, subscriptions |-> subscriptions]

\* requiresSubscription from the answer of client.query on
afterSubscriptionQuery(ctx, result) ==
  LET valid == hasValidSubscription(result.subscriptions, now)
      c1 == [ctx EXCEPT !.subscriptions = result.subscriptions, !.checkedAt = now,
                        !.hasValidSubscription = BoolStr(valid),
                        !.state.hasActiveSubscription = BoolStr(valid)]
  IN IF result.threw THEN subscriptionCheckError(Logged(ctx, "queryThrew"))
     ELSE IF IsBillingPath(ctx.path) THEN GateNext(c1)
     ELSE IF ~valid /\ ctx.path # "/"
          THEN Redirect(c1, <<"/", "?", "billing", "=", "required">>)
          ELSE GateNext(c1)

checkBillingOnAppLoad_queriesAnyway(ctx) ==
  LET shop == QueryGet(ctx.query, "shop")
  IN IF ~Truthy(shop) \/ QueryGet(ctx.query, "billing") = <<"required">>
     THEN GateNext(ctx)
     ELSE Logged([ctx EXCEPT !.shop = shop[1],
                             !.found = FindOffline(findSessionsByShop(storage, shop[1])),
                             !.pc = "billingQuery"], "billingQuery")

\* checkBillingOnAppLoad up to client.query
\* (the requests of the model carry at most one shop parameter)
checkBillingOnAppLoad(ctx) ==
  LET shop == QueryGet(ctx.query, "shop")
      session == FindOffline(findSessionsByShop(storage, shop[1]))
  IN IF ctx.path \in {"/auth", "/auth/callback"} \/ IsBillingPath(ctx.path)
     THEN GateNext(ctx)
     ELSE IF ~Truthy(shop) THEN GateNext(ctx)
     ELSE IF QueryGet(ctx.query, "billing") = <<"required">> THEN GateNext(ctx)
     ELSE IF session = NoSession \/ session.accessToken = ""
          THEN GateNext([ctx EXCEPT !.shop = shop[1]])
          ELSE Logged([ctx EXCEPT !.shop = shop[1], !.found = session,
                                  !.pc = "billingQuery"], "billingQuery")

\* the catch of checkBillingOnAppLoad
billingCheckError(ctx) == GateNext([ctx EXCEPT !.state.showBillingPrompt = TRUE])

afterBillingQuery_backToShop(ctx, result) ==
  IF result.threw THEN GateNext([ctx EXCEPT !.state.showBillingPrompt = TRUE])
  ELSE IF ~hasValidSubscription(result.subscriptions, now)
       THEN Redirect(ctx, <<"/", "?", "shop", "=", ctx.shop>>)
       ELSE GateNext(ctx)

\* checkBillingOnAppLoad from the answer of client.query on
afterBillingQuery(ctx, result) ==
  LET valid == hasValidSubscription(result.subscriptions, now)
      c1 == [ctx EXCEPT !.subscriptions = result.subscriptions, !.checkedAt = now,
                        !.hasValidSubscription = BoolStr(valid)]
  IN IF result.threw THEN billingCheckError(Logged(ctx, "queryThrew"))
     ELSE IF ~valid
          THEN Redirect(c1, <<"/", "?", "billing", "=", "required", "&", "shop", "=", ctx.shop>>)
          ELSE GateNext(c1)

-----------------------------------------------------------------------------
(* The billing status cache of src/unnamed/part_001 *)

CACHE_DURATION == 5 * 60 * 1000

CacheGet(cache, shop) == IF shop \in Shops THEN cache[shop] ELSE NoEntry

CacheSet(cache, shop, entry) ==
  IF shop \in Shops THEN [cache EXCEPT ![shop] = entry] ELSE cache

CacheDelete_nothing(cache, shop) == cache

\* delete SUBSCRIPTION_CACHE[shop]
CacheDelete(cache, shop) == CacheSet(cache, shop, NoEntry)

IsFresh_inclusive(cached, t) ==
  cached.present /\ cached.timestamp >= t - CACHE_DURATION

\* cached && cached.timestamp > Date.now() - CACHE_DURATION
IsFresh(cached, t) ==
  cached.present /\ cached.timestamp > t - CACHE_DURATION

billingStatus_forgetsData(ctx, cache) ==
  LET cached == CacheGet(cache, ctx.state.shop)
      c1 == [ctx EXCEPT !.cached = cached, !.readAt = now]
  IN IF IsFresh(cached, now)
     THEN Logged([c1 EXCEPT !.status = 200, !.pc = "done"], "cacheHit")
     ELSE Logged([c1 EXCEPT !.pc = "statusFetch"], "statusFetch")

\* router.get('/api/billing/status', ...) of part_001, up to its fetch
billingStatus(ctx, cache) ==
  LET shop == ctx.state.shop
      cached == CacheGet(cache, shop)
      c1 == [ctx EXCEPT !.cached = cached, !.readAt = now]
  IN IF shop = "" \/ ctx.state.session.accessToken = ""
     THEN [ctx EXCEPT !.status = 400, !.body = "Missing shop or access token", !.pc = "done"]
     ELSE IF IsFresh(cached, now)
     THEN Logged([c1 EXCEPT !.status = 200, !.data = cached.data, !.pc = "done"], "cacheHit")
     ELSE Logged([c1 EXCEPT !.pc = "statusFetch"], "statusFetch")

\* what the fetch and response.json() can answer: a throw, a body with
\* errors, or a body with a list of subscriptions
StatusResult(kind, subscriptions) == [kind |-> kind, subscriptions |-> subscriptions]

afterStatusFetch_cachesErrors(ctx, result) ==
  LET data == Data("false", ctx.state.shop, <<>>, 0, "GraphQL query error")
  IN Out([ctx EXCEPT !.status = 200, !.data = data, !.pc = "done"], storage,
         CacheSet(SUBSCRIPTION_CACHE, ctx.state.shop, Entry(now, data)))

\* the handler from the answer of the fetch on
afterStatusFetch(ctx, result) ==
  LET shop == ctx.state.shop
      activeSubscriptions == SelectSeq(result.subscriptions, LAMBDA sub : sub.status = "ACTIVE")
      responseData == Data(BoolStr(Len(activeSubscriptions) > 0), shop, result.subscriptions,
                           Len(activeSubscriptions), "Real-time billing check from Shopify API")
      answer(data) == [ctx EXCEPT !.status = 200, !.data = data, !.pc = "done"]
  IN CASE result.kind = "threw" ->
            Out(answer(Data("false", shop, <<>>, 0, "Error checking billing - defaulting to false")),
                storage, SUBSCRIPTION_CACHE)
       [] result.kind = "errors" ->
            Out(answer(Data("false", shop, <<>>, 0, "GraphQL query error")),
                storage, SUBSCRIPTION_CACHE)
       [] OTHER ->
            Out(Logged(answer(responseData), "cacheWrite"), storage,
                CacheSet(SUBSCRIPTION_CACHE, shop, Entry(now, responseData)))

\* router.get('/api/billing/callback', ...) of part_001
\* (the requests of the model carry at most one shop parameter)
billingCallback(ctx) ==
  LET shop == QueryGet(ctx.query, "shop")
  IN Out(Redirect([ctx EXCEPT !.deleted = IF shop = <<>> THEN NoEntry
                                          ELSE CacheGet(SUBSCRIPTION_CACHE, shop[1]),
                              !.deletedAt = now],
                  <<"/", "?", "shop", "=">> \o StringOrUndefined(shop)
                    \o <<"&", "billing", "=", "success">>),
         storage,
         IF shop = <<>> THEN SUBSCRIPTION_CACHE
         ELSE CacheDelete(SUBSCRIPTION_CACHE, shop[1]))

\* router.post('/api/billing/cancel', authenticateRequest, ...) of part_001:
\* no middleware of this server parses request bodies (only rawBody is set,
\* for paths under /webhooks/), so ctx.request.body is undefined, the
\* destructuring of subscriptionId throws and the catch answers; the fetch
\* and the delete of the cache entry behind it are never reached
billingCancel(ctx) ==
  [ctx EXCEPT !.status = 500, !.body = "Internal server error", !.pc = "done"]

afterCancelFetch_clearsFirst(ctx, result) ==
  Out([ctx EXCEPT !.status = CASE result = "threw" -> 500
                              [] result = "userErrors" -> 400
                              [] OTHER -> 200,
                  !.pc = "done"],
      storage, CacheDelete(SUBSCRIPTION_CACHE, ctx.state.shop))

\* the rest of the handler, from the answer of its fetch on: the fetch or
\* response.json() throws, the mutation answers userErrors, or it answers
\* without them
afterCancelFetch(ctx, result) ==
  CASE result = "threw" ->
         Out([ctx EXCEPT !.status = 500, !.body = "Internal server error", !.pc = "done"],
             storage, SUBSCRIPTION_CACHE)
    [] result = "userErrors" ->
         Out([ctx EXCEPT !.status = 400, !.body = "Failed to cancel subscription",
                         !.pc = "done"],
             storage, SUBSCRIPTION_CACHE)
    [] OTHER ->
         Out([ctx EXCEPT !.deleted = CacheGet(SUBSCRIPTION_CACHE, ctx.state.shop),
                         !.deletedAt = now, !.status = 200, !.body = "success",
                         !.pc = "done"],
             storage, CacheDelete(SUBSCRIPTION_CACHE, ctx.state.shop))

\* crypto.createHmac('sha256', SHOPIFY_API_SECRET).update(body).digest('base64')
Digest(body) == "hmac(" \o body \o ")"

CompliancePaths ==
  {"/webhooks/customers/data_request", "/webhooks/customers/redact", "/webhooks/shop/redact"}

complianceWebhook_noBodyTest(ctx, hmacHeader, body, threw) ==
  IF threw \/ hmacHeader = "" \/ Digest(body) # hmacHeader
  THEN [ctx EXCEPT !.status = 401, !.body = "Unauthorized", !.pc = "done"]
  ELSE [ctx EXCEPT !.status = 200, !.body = "No data", !.pc = "done"]

\* router.post('/webhooks/customers/data_request', ...), .../customers/redact
\* and .../shop/redact, of both servers; hmacHeader is the
\* X-Shopify-Hmac-Sha256 header ("" when absent), body is ctx.request.rawBody,
\* threw says whether a statement of the try block throws
complianceWebhook(ctx, hmacHeader, body, threw) ==
  LET unauthorized == [ctx EXCEPT !.status = 401, !.body = "Unauthorized", !.pc = "done"]
  IN IF threw THEN unauthorized
     ELSE IF hmacHeader = "" \/ body = "" THEN unauthorized
     ELSE IF Digest(body) # hmacHeader THEN unauthorized
     ELSE [ctx EXCEPT !.status = 200,
                      !.body = CASE ctx.path = "/webhooks/customers/data_request"
                                      -> "No customer data stored"
                                 [] ctx.path = "/webhooks/customers/redact"
                                      -> "No customer data to redact"
                                 [] OTHER -> "No shop data to redact",
                      !.pc = "done"]

uninstallWebhook_deletesFirst(ctx, hmacOk, body) ==
  LET shop == IF body.shop_domain # "" THEN body.shop_domain ELSE body.shop
      sessions == findSessionsByShop(storage, shop)
      del[k \in 0..Len(sessions)] ==
        IF k = 0 THEN storage ELSE deleteSession(del[k - 1], sessions[k].id)
  IN Out([ctx EXCEPT !.shop = shop,
                     !.status = IF ~hmacOk THEN 401 ELSE IF ~body.json THEN 500 ELSE 200,
                     !.pc = "done"],
         del[Len(sessions)], CacheDelete(SUBSCRIPTION_CACHE, shop))

\* router.post('/webhooks/app/uninstalled', ...) of part_001; hmacOk says
\* whether the digest of the raw body equals the header, body is what
\* JSON.parse makes of the raw body
uninstallWebhook(ctx, hmacOk, body) ==
  LET shop == IF body.shop_domain # "" THEN body.shop_domain ELSE body.shop
      sessions == findSessionsByShop(storage, shop)
      del[k \in 0..Len(sessions)] ==
        IF k = 0 THEN storage ELSE deleteSession(del[k - 1], sessions[k].id)
  IN IF ~hmacOk
     THEN Out([ctx EXCEPT !.status = 401, !.body = "Unauthorized", !.pc = "done"],
              storage, SUBSCRIPTION_CACHE)
     ELSE IF ~body.json
     THEN Out([ctx EXCEPT !.status = 500, !.body = "Internal server error", !.pc = "done"],
              storage, SUBSCRIPTION_CACHE)
     ELSE Out([ctx EXCEPT !.shop = shop, !.deleted = CacheGet(SUBSCRIPTION_CACHE, shop),
                          !.deletedAt = now,
                          !.exchanging = {i \in Slots : /\ reqs[i].pc = "tokenExchange"
                                                        /\ reqs[i].shop = shop},
                          !.status = 200, !.body = "Uninstall webhook processed",
                          !.pc = "done"],
              del[Len(sessions)], CacheDelete(SUBSCRIPTION_CACHE, shop))

\* router.get('(/)', ...) of part_001
\* (the requests of the model carry at most one shop parameter)
mainRoutePart001(ctx) ==
  LET shop == QueryGet(ctx.query, "shop")
  IN IF ~Truthy(shop)
     THEN Out([ctx EXCEPT !.status = 400, !.body = "Missing shop parameter", !.pc = "done"],
              storage, SUBSCRIPTION_CACHE)
     ELSE IF QueryGet(ctx.query, "billing") = <<"success">>
     THEN Out([ctx EXCEPT !.deleted = CacheGet(SUBSCRIPTION_CACHE, shop[1]),
                          !.deletedAt = now,
                          !.status = 200, !.body = "html", !.pc = "done"],
              storage, CacheDelete(SUBSCRIPTION_CACHE, shop[1]))
     ELSE Out([ctx EXCEPT !.status = 200, !.body = "html", !.pc = "done"],
              storage, SUBSCRIPTION_CACHE)

\* await next() of authenticateRequest: the rest of the route's chain, up to
\* its first network await
Downstream(out) ==
  LET ctx == Logged(out.ctx, "next")
  IN CASE ctx.path = "/api/test" -> Out(apiTest(ctx), out.storage, out.cache)
       [] build = "server" /\ ctx.path \in {"/api/shop", "/api/billing/status"} ->
            Out(requiresSubscription(ctx), out.storage, out.cache)
       [] build = "part001" /\ ctx.path = "/api/billing/status" ->
            Out(billingStatus(ctx, out.cache), out.storage, out.cache)
       [] build = "part001" /\ ctx.path = "/api/billing/cancel" ->
            Out(billingCancel(ctx), out.storage, out.cache)
       [] OTHER -> Out([ctx EXCEPT !.pc = "done"], out.storage, out.cache)

\* await next() of requiresSubscription and checkBillingOnAppLoad: the route
\* handler
Handler(out) ==
  LET ctx == Logged(out.ctx, "gateNext")
  IN CASE ctx.path = "/api/shop" -> Out(apiShop(ctx), out.storage, out.cache)
       [] ctx.path = "/api/billing/status" -> Out(apiBillingStatus(ctx), out.storage, out.cache)
       [] ctx.path = "/" -> Out(mainRoute(ctx), out.storage, out.cache)
       [] OTHER -> Out([ctx EXCEPT !.pc = "done"], out.storage, out.cache)

Continue(out) ==
  LET o1 == IF out.ctx.pc = "next" THEN Downstream(out) ELSE out
  IN IF o1.ctx.pc = "gateNext" THEN Handler(o1) ELSE o1

-----------------------------------------------------------------------------
(* OAuth callback of src/server/index.js *)

\* up to the fetch of the access token
authCallback(ctx) ==
  LET code == QueryGet(ctx.query, "code")
      shop == QueryGet(ctx.query, "shop")
  IN IF ~Truthy(code) \/ ~Truthy(shop)
     THEN [ctx EXCEPT !.status = 400, !.body = "Missing required OAuth parameters", !.pc = "done"]
     ELSE Logged([ctx EXCEPT !.shop = shop[1], !.pc = "oauthFetch"], "oauthFetch")

\* what the fetch can answer: a throw or a non-ok status, or a JSON body
\* with or without access_token
OAuthResults(token) ==
  { [threw |-> TRUE,  access_token |-> ""],
    [threw |-> FALSE, access_token |-> token],
    [threw |-> FALSE, access_token |-> ""] }

afterOAuthFetch(ctx, result) ==
  IF result.threw
  THEN Out([ctx EXCEPT !.status = 500, !.body = "Authentication failed", !.pc = "done"],
           storage, SUBSCRIPTION_CACHE)
  ELSE LET session == Session(SessionIdCallback(ctx.shop), ctx.shop, result.access_token)
       IN Out(Redirect(Logged(ctx, "storeSession"),
                       <<"/", "?", "shop", "=", ctx.shop, "&", "host", "=">>
                         \o StringOrUndefined(QueryGet(ctx.query, "host"))),
              storeSession(storage, session), SUBSCRIPTION_CACHE)

-----------------------------------------------------------------------------
(* Actions *)

FreshToken == "shpat_" \o ToString(exchanges + 1)

LowestIdle == CHOOSE i \in Slots : reqs[i] = Idle /\ \A j \in Slots : reqs[j] = Idle => i <= j

\* the shop of the request's decoded assertion
AssertedShop(ctx) ==
  IF decodeSessionToken(ctx.encodedSessionToken).ok
  THEN Hostname(decodeSessionToken(ctx.encodedSessionToken).dest)
  ELSE ""

Commit(i, out) ==
  /\ storage' = out.storage
  /\ SUBSCRIPTION_CACHE' = out.cache
  /\ handled' = IF Called(out.ctx, "next") /\ ~Called(reqs[i], "next")
                   /\ decodeSessionToken(out.ctx.encodedSessionToken).ok
                   /\ handled[AssertedShop(out.ctx)] < 2
                THEN [handled EXCEPT ![AssertedShop(out.ctx)] = @ + 1]
                ELSE handled
  /\ IF out.ctx.pc = "done"
     THEN reqs' = [reqs EXCEPT ![i] = Idle] /\ last' = out.ctx
     ELSE reqs' = [reqs EXCEPT ![i] = out.ctx] /\ last' = last

\* a request arrives and runs up to its first network await
ReceiveUpTo(limit, start) ==
  /\ served < limit
  /\ \E i \in Slots : reqs[i] = Idle
  /\ Commit(LowestIdle, start)
  /\ served' = served + 1
  /\ UNCHANGED <<build, timezone, now, exchanges>>

Receive(start) == ReceiveUpTo(MaxRequests, start)

AuthHeaders ==
  { NoHeader, Bearer(""), Bearer("jwt.a"), Bearer("jwt.b"), Bearer("jwt.bad") }

AuthQueries ==
  { <<>>,
    << <<"shop", <<ShopB>>>> >>,
    << <<"id_token", <<"jwt.a">>>>, <<"shop", <<ShopA>>>> >>,
    << <<"id_token", <<"jwt.bad">>>>, <<"shop", <<ShopA>>>> >>,
    << <<"id_token", <<"jwt.b">>>> >> }

\* a request to a route whose chain starts with authenticateRequest
AuthenticatedRequest(path) ==
  \E authorization \in AuthHeaders, query \in AuthQueries :
    Receive(Continue(Out(authenticateRequest(NewCtx(path, authorization, query)),
                         storage, SUBSCRIPTION_CACHE)))

\* the token exchange of a suspended request returns
TokenExchangeReturns(i) ==
  /\ reqs[i].pc = "tokenExchange"
  /\ \E result \in TokenExchangeResults(FreshToken) :
       /\ Commit(i, Continue(AfterTokenExchange(reqs[i], result)))
       /\ exchanges' = IF result.threw THEN exchanges ELSE exchanges + 1
  /\ UNCHANGED <<build, timezone, now, served>>

OAuthQueries ==
  { << <<"code", <<"c0de">>>>, <<"shop", <<ShopA>>>> >>,
    << <<"code", <<"c0de">>>>, <<"shop", <<ShopB>>>>, <<"host", <<"h0st">>>> >>,
    << <<"shop", <<ShopA>>>> >> }

OAuthCallbackRequest ==
  /\ build = "server"
  /\ \E query \in OAuthQueries :
       Receive(Out(authCallback(NewCtx("/auth/callback", NoHeader, query)),
                   storage, SUBSCRIPTION_CACHE))

OAuthFetchReturns(i) ==
  /\ reqs[i].pc = "oauthFetch"
  /\ \E result \in OAuthResults(FreshToken) :
       /\ Commit(i, afterOAuthFetch(reqs[i], result))
       /\ exchanges' = IF result.threw THEN exchanges ELSE exchanges + 1
  /\ UNCHANGED <<build, timezone, now, served>>

-----------------------------------------------------------------------------
(* The authentication specification *)

NoCache == [s \in Shops |-> NoEntry]

InitAuth ==
  /\ build \in Builds
  /\ timezone = "UTC"
  /\ storage = <<>>
  /\ SUBSCRIPTION_CACHE = NoCache
  /\ now = 0
  /\ reqs = [i \in Slots |-> Idle]
  /\ last = Idle
  /\ served = 0
  /\ exchanges = 0
  /\ handled = [s \in Shops |-> 0]

NextAuth ==
  \/ AuthenticatedRequest("/api/test")
  \/ \E i \in Slots : TokenExchangeReturns(i)
  \/ OAuthCallbackRequest
  \/ \E i \in Slots : OAuthFetchReturns(i)

SpecAuth == InitAuth /\ [][NextAuth]_vars

-----------------------------------------------------------------------------
(* The gate specifications: src/server/index.js behind requiresSubscription  *)
(* and checkBillingOnAppLoad, on a host in UTC (SpecGate) and on a host in   *)
(* any of the Timezones (SpecZones)                                          *)

\* the clock moves on to a later one of the instants
Tick(instants) ==
  /\ \E t \in instants : t > now /\ now' = t
  /\ UNCHANGED <<build, timezone, storage, SUBSCRIPTION_CACHE, reqs, last, served,
                 exchanges, handled>>

CreatedAts == {0}

GateTimes == {0, 5 * DAY - 1, 5 * DAY, 5 * DAY + HOUR}

GateSubscriptions ==
  { <<>>,
    <<Subscription("ACTIVE", 5, 0)>>,
    <<Subscription("PENDING", 0, 0)>> }
  \cup { <<Subscription("PENDING", 5, T)>> : T \in CreatedAts }

QueryResults ==
  { QueryResult(TRUE, <<>>) } \cup { QueryResult(FALSE, subs) : subs \in GateSubscriptions }

GatedPaths == {"/api/shop", "/api/billing/status"}

GateHeaders == { Bearer("jwt.a") }

\* a request to a route behind authenticateRequest and requiresSubscription
GatedApiRequest ==
  \E path \in GatedPaths, authorization \in GateHeaders :
    ReceiveUpTo(MaxBillingRequests,
      Continue(Out(authenticateRequest(NewCtx(path, authorization, <<>>)),
                   storage, SUBSCRIPTION_CACHE)))

AppLoadQueries ==
  { <<>>,
    << <<"shop", <<ShopA>>>> >>,
    << <<"billing", <<"required">>>>, <<"shop", <<ShopA>>>> >> }

\* a request to the main route, behind checkBillingOnAppLoad
AppLoadRequest ==
  \E query \in AppLoadQueries :
    ReceiveUpTo(MaxBillingRequests,
      Continue(Out(checkBillingOnAppLoad(NewCtx("/", NoHeader, query)),
                   storage, SUBSCRIPTION_CACHE)))

\* client.query of a suspended requiresSubscription returns
SubscriptionQueryReturns(i) ==
  /\ reqs[i].pc = "subscriptionQuery"
  /\ \E result \in QueryResults :
       Commit(i, Continue(Out(afterSubscriptionQuery(reqs[i], result),
                              storage, SUBSCRIPTION_CACHE)))
  /\ UNCHANGED <<build, timezone, now, served, exchanges>>

\* client.query of a suspended checkBillingOnAppLoad returns
BillingQueryReturns(i) ==
  /\ reqs[i].pc = "billingQuery"
  /\ \E result \in QueryResults :
       Commit(i, Continue(Out(afterBillingQuery(reqs[i], result),
                              storage, SUBSCRIPTION_CACHE)))
  /\ UNCHANGED <<build, timezone, now, served, exchanges>>

\* the fetch of a suspended /api/shop handler returns
ShopFetchReturns(i) ==
  /\ reqs[i].pc = "shopFetch"
  /\ \E ok \in BOOLEAN :
       Commit(i, Out(afterShopFetch(reqs[i], ok), storage, SUBSCRIPTION_CACHE))
  /\ UNCHANGED <<build, timezone, now, served, exchanges>>

\* the browser follows the redirect that the latest request to / was
\* answered with
FollowRedirect ==
  /\ last.path = "/"
  /\ last.status = 302
  /\ UrlPath(last.location) = <<"/">>
  /\ ReceiveUpTo(MaxBillingRequests + 1,
       Continue(Out(checkBillingOnAppLoad(NewCtx("/", NoHeader,
                                                 QueryOfParams(UrlParams(last.location)))),
                    storage, SUBSCRIPTION_CACHE)))

InitGate ==
  /\ build = "server"
  /\ timezone = "UTC"
  /\ storage = <<>>
  /\ SUBSCRIPTION_CACHE = NoCache
  /\ now = 0
  /\ reqs = [i \in Slots |-> Idle]
  /\ last = Idle
  /\ served = 0
  /\ exchanges = 0
  /\ handled = [s \in Shops |-> 0]

NextGate ==
  \/ GatedApiRequest
  \/ AppLoadRequest
  \/ FollowRedirect
  \/ \E i \in Slots : TokenExchangeReturns(i)
  \/ \E i \in Slots : SubscriptionQueryReturns(i)
  \/ \E i \in Slots : BillingQueryReturns(i)
  \/ \E i \in Slots : ShopFetchReturns(i)
  \/ Tick(GateTimes)

SpecGate == InitGate /\ [][NextGate]_vars

InitZones ==
  /\ build = "server"
  /\ timezone \in Timezones
  /\ storage = <<>>
  /\ SUBSCRIPTION_CACHE = NoCache
  /\ now = 0
  /\ reqs = [i \in Slots |-> Idle]
  /\ last = Idle
  /\ served = 0
  /\ exchanges = 0
  /\ handled = [s \in Shops |-> 0]

SpecZones == InitZones /\ [][NextGate]_vars

-----------------------------------------------------------------------------
(* The cache specification: the billing status route of part_001             *)

CacheTimes == {0, CACHE_DURATION - 1, CACHE_DURATION, 2 * CACHE_DURATION}

StatusResults ==
  { StatusResult("threw", <<>>), StatusResult("errors", <<>>),
    StatusResult("data", <<>>),
    StatusResult("data", <<Subscription("ACTIVE", 5, 0)>>),
    StatusResult("data", <<Subscription("PENDING", 5, 0)>>) }

StatusHeaders == { NoHeader, Bearer("jwt.a") }

StatusQueries == { <<>>, << <<"shop", <<ShopB>>>> >> }

StatusRequest ==
  \E authorization \in StatusHeaders, query \in StatusQueries :
    ReceiveUpTo(MaxBillingRequests,
      Continue(Out(authenticateRequest(NewCtx("/api/billing/status", authorization, query)),
                   storage, SUBSCRIPTION_CACHE)))

\* the fetch of a suspended billing status handler returns
StatusFetchReturns(i) ==
  /\ reqs[i].pc = "statusFetch"
  /\ \E result \in StatusResults : Commit(i, afterStatusFetch(reqs[i], result))
  /\ UNCHANGED <<build, timezone, now, served, exchanges>>

CallbackQueries ==
  { <<>>, << <<"charge_id", <<"1">>>>, <<"shop", <<ShopA>>>> >> }

BillingCallbackRequest ==
  \E query \in CallbackQueries :
    ReceiveUpTo(MaxBillingRequests,
      billingCallback(NewCtx("/api/billing/callback", NoHeader, query)))

InitCache ==
  /\ build = "part001"
  /\ timezone = "UTC"
  /\ storage = <<>>
  /\ SUBSCRIPTION_CACHE = NoCache
  /\ now = 0
  /\ reqs = [i \in Slots |-> Idle]
  /\ last = Idle
  /\ served = 0
  /\ exchanges = 0
  /\ handled = [s \in Shops |-> 0]

NextCache ==
  \/ StatusRequest
  \/ \E i \in Slots : TokenExchangeReturns(i)
  \/ \E i \in Slots : StatusFetchReturns(i)
  \/ BillingCallbackRequest
  \/ Tick(CacheTimes)

SpecCache == InitCache /\ [][NextCache]_vars

-----------------------------------------------------------------------------
(* The invalidation specification: the routes of part_001 that read, write   *)
(* and delete the billing status cache                                       *)

MaxInvalidateRequests == 3

\* a request to /api/billing/status or /api/billing/cancel
InvalidateRequest(path) ==
  \E query \in StatusQueries :
    ReceiveUpTo(MaxInvalidateRequests,
      Continue(Out(authenticateRequest(NewCtx(path, Bearer("jwt.a"), query)),
                   storage, SUBSCRIPTION_CACHE)))

CallbackArrives ==
  \E query \in CallbackQueries :
    ReceiveUpTo(MaxInvalidateRequests,
      billingCallback(NewCtx("/api/billing/callback", NoHeader, query)))

\* what JSON.parse makes of the raw body of an uninstall webhook: a throw
\* (json is FALSE: the body is missing or malformed), or an object with or
\* without shop_domain and shop
UninstallBodies ==
  { [json |-> FALSE, shop_domain |-> "", shop |-> ""],
    [json |-> TRUE, shop_domain |-> "", shop |-> ""],
    [json |-> TRUE, shop_domain |-> ShopA, shop |-> ""],
    [json |-> TRUE, shop_domain |-> "", shop |-> ShopA] }

\* Shopify, or anybody else, posts to the uninstall webhook
UninstallRequest ==
  \E hmacOk \in BOOLEAN, body \in UninstallBodies :
    ReceiveUpTo(MaxInvalidateRequests,
      uninstallWebhook(NewCtx("/webhooks/app/uninstalled", NoHeader, <<>>), hmacOk, body))

WebhookHeaders == {"", Digest(""), Digest("{}")}

WebhookBodies == {"", "{}"}

\* Shopify, or anybody else, posts to a compliance webhook
ComplianceRequest ==
  \E path \in CompliancePaths, hmacHeader \in WebhookHeaders, body \in WebhookBodies,
     threw \in BOOLEAN :
    ReceiveUpTo(MaxInvalidateRequests,
      Out(complianceWebhook(NewCtx(path, NoHeader, <<>>), hmacHeader, body, threw),
          storage, SUBSCRIPTION_CACHE))

MainRequest ==
  \E query \in { <<>>, << <<"shop", <<ShopA>>>>, <<"billing", <<"success">>>> >> } :
    ReceiveUpTo(MaxInvalidateRequests, mainRoutePart001(NewCtx("/", NoHeader, query)))

NextInvalidate ==
  \/ InvalidateRequest("/api/billing/status")
  \/ InvalidateRequest("/api/billing/cancel")
  \/ \E i \in Slots : TokenExchangeReturns(i)
  \/ \E i \in Slots : StatusFetchReturns(i)
  \/ CallbackArrives
  \/ UninstallRequest
  \/ MainRequest
  \/ Tick({CACHE_DURATION - 1})

SpecInvalidate == InitCache /\ [][NextInvalidate]_vars

\* the webhooks of part_001 beside the requests that fill the session store
\* and the cache
NextWebhooks ==
  \/ InvalidateRequest("/api/billing/status")
  \/ \E i \in Slots : TokenExchangeReturns(i)
  \/ \E i \in Slots : StatusFetchReturns(i)
  \/ UninstallRequest
  \/ ComplianceRequest

SpecWebhooks == InitCache /\ [][NextWebhooks]_vars

-----------------------------------------------------------------------------
(* The bounce specification: requests that carry no usable assertion, over   *)
(* every query of up to MaxParams parameters                                 *)

MaxParams == 3

QueryPairs ==
  { <<"shop", <<ShopA>>>>, <<"shop", <<ShopB>>>>, <<"host", <<"h0st">>>>,
    <<"id_token", <<"OLD">>>>, <<"id_token", <<"OLD", "OLD2">>>>, <<"id_token", <<"">>>> }

\* ctx.query objects: every key at most once
BounceQueries ==
  { q \in UNION { [1..n -> QueryPairs] : n \in 0..MaxParams } :
      \A j, k \in 1..Len(q) : j # k => q[j][1] # q[k][1] }

BounceHeaders == { NoHeader, Bearer(""), Bearer("OLD") }

BouncePaths == { "/api/test", "/api/shop" }

UnauthenticatedRequest ==
  \E path \in BouncePaths, authorization \in BounceHeaders, query \in BounceQueries :
    Receive(Continue(Out(authenticateRequest(NewCtx(path, authorization, query)),
                         storage, SUBSCRIPTION_CACHE)))

\* a document request: a navigation of the browser, without an
\* authorization header
DocumentRequest ==
  \E path \in BouncePaths,
     query \in { <<>>,
                 << <<"shop", <<ShopB>>>> >>,
                 << <<"id_token", <<"OLD">>>>, <<"shop", <<ShopA>>>> >>,
                 << <<"id_token", <<"jwt.a">>>>, <<"host", <<"h0st">>>> >> } :
    Receive(Continue(Out(authenticateRequest(NewCtx(path, NoHeader, query)),
                         storage, SUBSCRIPTION_CACHE)))

\* what window.shopify.idToken() of the bounce page can give: "" where App
\* Bridge is missing or the call throws
IdTokens == {"", "jwt.a", "jwt.bad"}

\* the script of the bounce page that the latest request was redirected to:
\* the browser loads the shopify-reload target, with the id_token set when
\* one was acquired
BouncePageReloads ==
  /\ last.status = 302
  /\ Len(last.location) > 0
  /\ last.location[1] = "/session-token-bounce"
  /\ \E idToken \in IdTokens :
       LET redirectUrl == ReloadTarget(last.location)
           query == QueryOfParams(UrlParams(redirectUrl))
       IN Receive(Continue(Out(
            authenticateRequest(NewCtx(Flatten(UrlPath(redirectUrl)), NoHeader,
                                       IF idToken = "" THEN query
                                       ELSE QuerySet(query, "id_token", idToken))),
            storage, SUBSCRIPTION_CACHE)))

NextBounce == UnauthenticatedRequest

SpecBounce == InitAuth /\ [][NextBounce]_vars

NextRetry ==
  \/ DocumentRequest
  \/ BouncePageReloads
  \/ \E i \in Slots : TokenExchangeReturns(i)

SpecRetry == InitAuth /\ [][NextRetry]_vars

-----------------------------------------------------------------------------
(* Observations used by the properties *)

Pieces(str) == { str[k] : k \in 1..Len(str) }

AuthRoutes == {"/api/test", "/api/shop", "/api/billing/status"}

\* what the client sees
Response(ctx) == <<ctx.status, ctx.location, ctx.retryHeader, ctx.body>>

\* the request as it arrived
Inputs(ctx) == NewCtx(ctx.path, ctx.authorization, ctx.query)

IsBounce(ctx) ==
  ctx.status = 302 /\ Len(ctx.location) > 0 /\ ctx.location[1] = "/session-token-bounce"

IsRetry401(ctx) == ctx.status = 401 /\ ctx.retryHeader

IsExchange500(ctx) ==
  ctx.status = 500
  /\ ctx.body \in {"Token exchange failed", "Token exchange failed - no access token"}

\* a finished request that authenticateRequest answered itself
AuthRejected(ctx) ==
  ctx.path \in AuthRoutes /\ (IsBounce(ctx) \/ ctx.retryHeader \/ IsExchange500(ctx))

SessionsOf(shop) == findSessionsByShop(storage, shop)

-----------------------------------------------------------------------------
(* C1..C5: the session resolver *)

\* C1 (P1, idempotent provisioning): once authenticateRequest has passed two
\* requests with valid assertions for shop s on to next(), the store holds
\* exactly one session of shop s and its id is offline_<s>.
C1_ExactlyOneOfflineSession ==
  \A s \in Shops :
    handled[s] >= 2 =>
      /\ Len(SessionsOf(s)) = 1
      /\ SessionsOf(s)[1].id = <<"offline_", s>>

\* C2 (scenario B): a request with a valid assertion for shop s that found no
\* session of s calls the token exchange, then stores the session
\* {id: offline_<s>, shop: s, accessToken: the exchanged token, isOnline:
\* false}, and only then calls next().
C2_ExchangeStoreNext ==
  ( /\ last.path \in AuthRoutes
    /\ decodeSessionToken(last.encodedSessionToken).ok
    /\ last.found = NoSession
    /\ Called(last, "next") )
  => /\ last.log = <<"tokenExchange", "storeSession", "next">>
     /\ last.state.session.id = <<"offline_", AssertedShop(last)>>
     /\ last.state.session.shop = AssertedShop(last)
     /\ last.state.session.accessToken # ""
     /\ last.state.session.isOnline = FALSE

\* C3: authentication errors are terminal: a request answered by
\* authenticateRequest with the bounce redirect, a 401 or a 500 never reached
\* next() and has neither ctx.state.shop nor ctx.state.session set.
C3_AuthErrorsTerminal ==
  AuthRejected(last) =>
    /\ ~Called(last, "next")
    /\ last.state.shop = ""
    /\ last.state.session = NoSession

C3_Witness ==
  /\ IsExchange500(last)
  /\ last.path \in AuthRoutes
  /\ Called(last, "tokenExchange")

\* C4: a request without an assertion in the header and in id_token is
\* bounced when it has no authorization header, and gets 401 with the retry
\* header otherwise; exactly one of the two, and no token exchange.
C4_NoAssertion ==
  (last.path \in AuthRoutes /\ ~Truthy(ExtractToken(last))) =>
    /\ last.authorization = NoHeader => IsBounce(last) /\ ~last.retryHeader
    /\ last.authorization # NoHeader =>
         IsRetry401(last) /\ last.body = "Unauthorized" /\ last.location = <<>>
    /\ ~(IsBounce(last) /\ IsRetry401(last))
    /\ ~Called(last, "tokenExchange")

C4_Witness ==
  /\ last.path \in AuthRoutes
  /\ ~Truthy(ExtractToken(last))
  /\ last.authorization # NoHeader
  /\ IsRetry401(last)

\* C5: a decode failure follows the branch of an absent assertion: the
\* response equals the one the no-token branch gives the same request, the
\* bounce without an authorization header and the 401 with the retry header
\* otherwise.
C5_DecodeFailureAsAbsent ==
  ( /\ last.path \in AuthRoutes
    /\ Truthy(last.encodedSessionToken)
    /\ ~decodeSessionToken(last.encodedSessionToken).ok )
  => /\ Response(last) = Response(NoTokenResponse(Inputs(last)))
     /\ IF last.authorization = NoHeader THEN IsBounce(last) ELSE IsRetry401(last)

C5_Witness ==
  /\ last.path \in AuthRoutes
  /\ last.encodedSessionToken = <<"jwt.bad">>
  /\ last.authorization = NoHeader
  /\ IsBounce(last)

-----------------------------------------------------------------------------
(* C6, C7: the bounce redirect *)

\* the original query as key/value strings, an array value joined by ","
OriginalParams(query) ==
  [k \in 1..Len(query) |->
     << <<query[k][1]>>,
        IF Len(query[k][2]) = 1 THEN query[k][2]
        ELSE <<query[k][2][1], ",", query[k][2][2]>> >>]

\* C6 (scenario A): a request without authorization header and without
\* id_token to path P is redirected to /session-token-bounce; the redirect's
\* query keeps the original parameters (shop=s among them) and adds one
\* shopify-reload parameter whose value is P followed by the original query.
C6_BounceKeepsQueryAndTarget ==
  ( /\ last.path \in AuthRoutes
    /\ last.authorization = NoHeader
    /\ QueryGet(last.query, "id_token") = <<>> )
  => /\ last.status = 302
     /\ UrlPath(last.location) = <<"/session-token-bounce">>
     /\ UrlParams(last.location)
          = OriginalParams(last.query)
              \o << << <<"shopify-reload">>, ReloadTarget(last.location) >> >>
     /\ UrlPath(ReloadTarget(last.location)) = <<last.path>>
     /\ UrlParams(ReloadTarget(last.location)) = OriginalParams(last.query)
     /\ \A s \in Shops :
          QueryGet(last.query, "shop") = <<s>> =>
            ParamValues(UrlParams(last.location), "shop") = {<<s>>}

C6_Witness ==
  /\ last.path = "/api/shop"
  /\ last.authorization = NoHeader
  /\ last.query = << <<"shop", <<ShopA>>>> >>
  /\ last.location = << "/session-token-bounce", "?", "shop", "=", ShopA, "&",
                        "shopify-reload", "=", "/api/shop", "%3F", "shop", "%3D", ShopA >>

\* C7 (P5): a bounce redirect of a request whose URL carries id_token holds
\* that token neither in its own query nor in the shopify-reload target.
C7_BounceStripsToken ==
  ( /\ last.path \in AuthRoutes
    /\ QueryGet(last.query, "id_token") # <<>>
    /\ IsBounce(last) )
  => /\ ParamValues(UrlParams(last.location), "id_token") = {}
     /\ ParamValues(UrlParams(ReloadTarget(last.location)), "id_token") = {}
     /\ Pieces(last.location) \cap Pieces(QueryGet(last.query, "id_token")) \subseteq {""}
     /\ Pieces(ReloadTarget(last.location)) \cap Pieces(QueryGet(last.query, "id_token"))
          \subseteq {""}
     /\ UrlParams(ReloadTarget(last.location))
          = OriginalParams(SelectSeq(last.query, LAMBDA p : p[1] # "id_token"))

C7_Witness ==
  /\ last.path \in AuthRoutes
  /\ last.query = << <<"id_token", <<"OLD">>>>, <<"shop", <<ShopA>>>> >>
  /\ IsBounce(last)
  /\ last.location = << "/session-token-bounce", "?", "shop", "=", ShopA, "&",
                        "shopify-reload", "=", last.path, "%3F", "shop", "%3D", ShopA >>

-----------------------------------------------------------------------------
(* C8, C9, C10: the entitlement gate and the status cache *)

\* the request that finished last and the suspended ones
Requests == {last} \cup {reqs[i] : i \in Slots}

\* C8 (P4, fail-open): when the subscription query of requiresSubscription or
\* of checkBillingOnAppLoad throws, the middleware calls next() exactly once
\* and the response is no redirect, on every route that uses it.
C8_FailOpenOnQueryError ==
  \A c \in Requests :
    Called(c, "queryThrew") =>
      /\ CountOf(c, "gateNext") = 1
      /\ c.status # 302
      /\ c.location = <<>>

C8_Witness ==
  /\ last.path = "/api/shop"
  /\ Called(last, "queryThrew")
  /\ last.log = <<"next", "subscriptionQuery", "queryThrew", "gateNext", "shopFetch">>
  /\ last.status = 200

\* C9 (P2, cache TTL): a status read at time t' that finds an entry written
\* at time t is a hit (the entry's data, no fetch) when t' < t + 5 minutes, and
\* a miss (the fetch is called, the entry is not returned) when
\* t' >= t + 5 minutes.
C9_CacheTtl ==
  \A c \in Requests :
    (c.readAt >= 0 /\ c.cached.present) =>
      /\ c.readAt < c.cached.timestamp + 300000 =>
           /\ Called(c, "cacheHit") /\ ~Called(c, "statusFetch")
           /\ c.pc = "done" /\ c.data = c.cached.data
      /\ c.readAt >= c.cached.timestamp + 300000 =>
           /\ Called(c, "statusFetch") /\ ~Called(c, "cacheHit")

C9_Witness ==
  /\ last.cached.present
  /\ last.readAt = last.cached.timestamp + 300000
  /\ Called(last, "statusFetch")

\* C10 (P3, trial window): a subscription with status PENDING, trialDays 5
\* and createdAt T grants access at every evaluation time in [T, T + 5 days)
\* and denies it at T + 5 days and at every later time.
C10_TrialWindow ==
  \A c \in Requests : \A T \in CreatedAts :
    (c.checkedAt >= T /\ c.subscriptions = <<Subscription("PENDING", 5, T)>>) =>
      /\ c.checkedAt < T + 5 * 24 * 60 * 60 * 1000 =>
           c.hasValidSubscription = "true" /\ Called(c, "gateNext") /\ c.status # 302
      /\ c.checkedAt >= T + 5 * 24 * 60 * 60 * 1000 =>
           /\ c.hasValidSubscription = "false"
           /\ IF c.path = "/api/billing/status"
              THEN c.data.hasActiveSubscription = "false"
              ELSE c.status = 302 /\ ~Called(c, "gateNext")

-----------------------------------------------------------------------------
(* C11, C12: the main entry point behind the gate *)

\* C11 (scenario C): a request to / for a shop without a cache entry whose
\* subscription query answers one ACTIVE subscription is passed on to next(),
\* and afterwards the cache holds an entry of the shop with
\* hasActiveSubscription = true.
C11_GrantPopulatesCache ==
  \A c \in Requests :
    ( /\ c.path = "/"
      /\ c.checkedAt >= 0
      /\ c.subscriptions = <<Subscription("ACTIVE", 5, 0)>> )
    => /\ Called(c, "gateNext")
       /\ CacheGet(SUBSCRIPTION_CACHE, c.shop).present
       /\ CacheGet(SUBSCRIPTION_CACHE, c.shop).data.hasActiveSubscription = "true"

\* the hosted plan-selection page of a shop (part_001, requiresSubscription)
planSelectionUrl(shop) ==
  LET storeHandle == CASE shop = ShopA -> "a" [] shop = ShopB -> "b" [] OTHER -> shop
  IN <<"https://admin.shopify.com/store/", storeHandle, "/charges/",
       "bgn2eur-price-display", "/pricing_plans">>

\* C12 (scenario D): a request to / for a shop whose subscription list holds
\* no qualifying subscription is not passed on to next(); the response sends
\* the browser to the plan-selection page of the shop,
\* https://admin.shopify.com/store/<handle>/charges/<app-handle>/pricing_plans.
C12_NotEntitledGoesToPlans ==
  \A c \in Requests :
    ( /\ c.path = "/"
      /\ c.checkedAt >= 0
      /\ c.hasValidSubscription = "false" )
    => /\ ~Called(c, "gateNext")
       /\ c.location = planSelectionUrl(c.shop)

-----------------------------------------------------------------------------
(* C15 - C20: provisioning *)

\* C15: the shop that authenticateRequest looks up, provisions and attaches
\* is the hostname of the decoded assertion's dest: a request with a valid
\* assertion for shop A never has ctx.state.shop or a session of another shop.
C15_ShopIsAssertedShop ==
  \A c \in Requests :
    (c.path \in AuthRoutes /\ decodeSessionToken(c.encodedSessionToken).ok) =>
      /\ c.shop \in {"", AssertedShop(c)}
      /\ c.found.shop \in {"", AssertedShop(c)}
      /\ c.state.shop \in {"", AssertedShop(c)}
      /\ c.state.session.shop \in {"", AssertedShop(c)}


\* C16: when the token exchange throws during provisioning, the request is
\* answered 500 "Token exchange failed", next() is not called, and neither
\* the step that starts the exchange nor the step that fails it changes the
\* session store.
C16_ExchangeFailureIsFatal ==
  [][\A i \in Slots :
       /\ (reqs[i] = Idle /\ reqs'[i].pc = "tokenExchange") => storage' = storage
       /\ ( /\ reqs[i].pc = "tokenExchange"
            /\ reqs'[i] # reqs[i]
            /\ exchanges' = exchanges )
          => /\ reqs'[i] = Idle
             /\ last'.path = reqs[i].path
             /\ last'.encodedSessionToken = reqs[i].encodedSessionToken
             /\ last'.status = 500
             /\ last'.body = "Token exchange failed"
             /\ ~Called(last', "next")
             /\ ~Called(last', "storeSession")
             /\ storage' = storage
             /\ SUBSCRIPTION_CACHE' = SUBSCRIPTION_CACHE]_vars

\* an exchange has failed while the store held another request's session
C16_Witness ==
  /\ last.status = 500
  /\ last.body = "Token exchange failed"
  /\ last.log = <<"tokenExchange">>
  /\ storage # <<>>


\* C17: a token exchange that returns without an accessToken fails like a
\* thrown one, so whenever next() has run for a request, the session on
\* ctx.state carries an access token that is not the placeholder, and a
\* request that stored a session stored one with an access token.
C17_NextHasCredential ==
  \A c \in Requests :
    /\ Called(c, "next") => c.state.session.accessToken \notin {"", "placeholder"}
    /\ Called(c, "storeSession") => c.state.session.accessToken \notin {"", "placeholder"}


-----------------------------------------------------------------------------
(* C18: exempt routes *)

\* C18: a request to the billing status endpoint that the entitlement gate
\* has decided on was passed to its handler exactly once and was not
\* redirected, whether the shop is entitled, not entitled, or the
\* entitlement query threw.
C18_BillingRoutesBypassGate ==
  \A c \in Requests :
    ( /\ c.path = "/api/billing/status"
      /\ Called(c, "subscriptionQuery")
      /\ c.pc # "subscriptionQuery" )
    => /\ CountOf(c, "gateNext") = 1
       /\ c.status = 200
       /\ c.location = <<>>
       /\ c.data.hasActiveSubscription = c.state.hasActiveSubscription
       /\ c.hasValidSubscription \in {"true", "false"} <=> ~Called(c, "queryThrew")

\* a shop without a valid subscription asked for its billing status and got it
C18_Witness ==
  /\ last.path = "/api/billing/status"
  /\ last.hasValidSubscription = "false"
  /\ Called(last, "gateNext")
  /\ last.status = 200
  /\ last.data.hasActiveSubscription = "false"


-----------------------------------------------------------------------------
(* C20: two requests of one new shop in flight together *)

\* C20: when a request for shop s found no session, and meanwhile another
\* request for s is in its own token exchange or has already stored the
\* session of s, then an exchange that returns a credential ends with next()
\* called with that credential and with exactly one session for s in the
\* store, the one this request wrote (the last write wins); the other
\* request in flight is untouched.
C20_LastWriteWins ==
  [][\A i \in Slots :
       LET s == reqs[i].shop
           j == 3 - i
           racing == /\ reqs[j].pc = "tokenExchange"
                     /\ reqs[j].shop = s
                     /\ SessionsOf(s) = <<>>
           overtaken == /\ Len(SessionsOf(s)) = 1
                        /\ SessionsOf(s)[1].id = SessionId(s)
           credential == /\ exchanges' = exchanges + 1
                         /\ last'.body # "Token exchange failed - no access token"
                         /\ ~(build = "server" /\ last'.state.session.accessToken = "")
       IN ( /\ reqs[i].pc = "tokenExchange"
            /\ reqs[i].found = NoSession
            /\ reqs'[i] = Idle
            /\ racing \/ overtaken
            /\ credential )
          => /\ Called(last', "next")
             /\ last'.state.shop = s
             /\ last'.state.session = Session(SessionId(s), s, FreshToken)
             /\ findSessionsByShop(storage', s) = <<last'.state.session>>
             /\ reqs'[j] = reqs[j]]_vars

\* both requests of a new shop have exchanged and called next(); the second
\* one to finish had looked the shop up before the first one stored
C20_Witness ==
  \E s \in Shops :
    /\ served = 2
    /\ exchanges = 2
    /\ handled[s] = 2
    /\ \A i \in Slots : reqs[i] = Idle
    /\ last.shop = s
    /\ last.found = NoSession
    /\ last.log = <<"tokenExchange", "storeSession", "next">>
    /\ SessionsOf(s) = <<Session(SessionId(s), s, "shpat_2")>>
    /\ last.state.session = SessionsOf(s)[1]


-----------------------------------------------------------------------------
(* C13, C14: invalidation of the billing status cache *)

\* C13: once a billing callback for shop s has been handled, the cache holds
\* no entry for s, whatever entry it held before; and while that callback is
\* the latest finished request, a billing status check for s that reads the
\* cache misses and goes to the fetch.
C13_CallbackForcesMiss ==
  [][\A s \in Shops :
       /\ ( /\ last'.path = "/api/billing/callback"
            /\ QueryGet(last'.query, "shop") = <<s>> )
          => ~SUBSCRIPTION_CACHE'[s].present
       /\ ( /\ last.path = "/api/billing/callback"
            /\ QueryGet(last.query, "shop") = <<s>> )
          => /\ ( /\ last'.path = "/api/billing/status"
                  /\ last'.state.shop = s )
                => ~Called(last', "cacheHit")
             /\ \A i \in Slots :
                  ( /\ reqs[i] = Idle
                    /\ reqs'[i].path = "/api/billing/status"
                    /\ reqs'[i].state.shop = s )
                  => /\ reqs'[i].pc = "statusFetch"
                     /\ reqs'[i].cached = NoEntry
                     /\ reqs'[i].readAt = now]_vars

\* a callback deleted an entry, and a status check that read the cache after
\* the entry was written, while it would still have been fresh, has missed
C13_Witness ==
  /\ last.path = "/api/billing/callback"
  /\ QueryGet(last.query, "shop") = <<ShopA>>
  /\ last.deleted.present
  /\ \E i \in Slots :
       /\ reqs[i].path = "/api/billing/status"
       /\ reqs[i].state.shop = ShopA
       /\ reqs[i].pc = "statusFetch"
       /\ reqs[i].cached = NoEntry
       /\ reqs[i].readAt > last.deleted.timestamp
       /\ IsFresh(last.deleted, reqs[i].readAt)


\* C14: when the latest finished request is one of the three invalidation
\* events for shop s (a billing callback for s, a subscription cancellation
\* that authenticateRequest let through for s, an uninstall webhook with a
\* valid digest for s), the cache holds no entry for s.
C14_InvalidationEventsDelete ==
  \A s \in Shops :
    ( \/ /\ last.path = "/api/billing/callback"
         /\ QueryGet(last.query, "shop") = <<s>>
      \/ /\ last.path = "/api/billing/cancel"
         /\ Called(last, "next")
         /\ last.state.shop = s
      \/ /\ last.path = "/webhooks/app/uninstalled"
         /\ last.status = 200
         /\ last.shop = s )
    => ~SUBSCRIPTION_CACHE[s].present


-----------------------------------------------------------------------------
(* C19: tenants *)

\* C19: while every request and event in the system is one of shop A (an
\* authenticated request whose assertion is for A, a billing callback or an
\* app load naming A, an uninstall webhook for A), no step changes the
\* stored sessions or the cache entry of shop B.
C19_TenantIndependence ==
  [][LET ForShopA(c) ==
           \/ c = Idle
           \/ /\ c.path \in {"/api/billing/status", "/api/billing/cancel"}
              /\ AssertedShop(c) = ShopA
           \/ /\ c.path \in {"/api/billing/callback", "/"}
              /\ QueryGet(c.query, "shop") \in {<<>>, <<ShopA>>}
           \/ /\ c.path = "/webhooks/app/uninstalled"
              /\ c.shop \in {"", ShopA}
     IN (ForShopA(last') /\ \A i \in Slots : ForShopA(reqs'[i]))
        => /\ findSessionsByShop(storage', ShopB) = findSessionsByShop(storage, ShopB)
           /\ SUBSCRIPTION_CACHE'[ShopB] = SUBSCRIPTION_CACHE[ShopB]]_vars


-----------------------------------------------------------------------------
(* C21 - C24: the session resolver among several sessions, and its calls *)

\* C21: a request starts a token exchange only when no stored session of
\* its shop is offline with a present, non-placeholder access token; and a
\* request that went to next() without an exchange carries such a session.
C21_PicksQualifyingSession ==
  [][\A i \in Slots :
       LET Qualifies(s) == ~s.isOnline /\ s.accessToken \notin {"", "placeholder"}
           stored == SessionsOf(reqs'[i].shop)
       IN /\ (reqs[i] = Idle /\ reqs'[i].pc = "tokenExchange")
             => ~\E k \in 1..Len(stored) : Qualifies(stored[k])
          /\ ( /\ last' # last
               /\ Called(last', "next")
               /\ ~Called(last', "tokenExchange") )
             => /\ Qualifies(last'.found)
                /\ \E k \in 1..Len(storage) : storage[k] = last'.found]_vars


\* C22: a request with a valid assertion for a shop of which the store holds
\* a qualifying offline session makes no token exchange call, leaves the
\* store as it is, and calls next() with exactly a stored qualifying session
\* of that shop on ctx.state.
C22_FoundSessionIsUsed ==
  [][LET c == IF reqs' = reqs THEN last' ELSE reqs'[LowestIdle]
         shop == AssertedShop(c)
         Qualifies(s) == ~s.isOnline /\ s.accessToken \notin {"", "placeholder"}
     IN ( /\ served' = served + 1
          /\ c.path \in AuthRoutes
          /\ shop # ""
          /\ \E k \in 1..Len(SessionsOf(shop)) : Qualifies(SessionsOf(shop)[k]) )
        => /\ ~Called(c, "tokenExchange")
           /\ storage' = storage
           /\ Called(c, "next")
           /\ c.state.shop = shop
           /\ Qualifies(c.state.session)
           /\ \E k \in 1..Len(SessionsOf(shop)) : SessionsOf(shop)[k] = c.state.session]_vars


\* C23: the token that authenticateRequest decodes and hands to the token
\* exchange is the one of the authorization header whenever the header
\* carries one, also when the query carries an id_token; the id_token
\* parameter is used only when the header yields no token.
C23_HeaderTakesPrecedence ==
  \A c \in Requests :
    c.path \in AuthRoutes =>
      LET header == getSessionTokenHeader(c)
          param == getSessionTokenFromUrlParam(c)
      IN /\ header # "" => c.encodedSessionToken = <<header>>
         /\ (header = "" /\ Truthy(param)) => c.encodedSessionToken = param
         /\ (header = "" /\ ~Truthy(param)) => c.encodedSessionToken = <<>>
         /\ (header # "" /\ (Called(c, "tokenExchange") \/ Called(c, "next")))
            => /\ decodeSessionToken(<<header>>).ok
               /\ build = "server" => c.shop = Hostname(decodeSessionToken(<<header>>).dest)

\* a request with the assertion of shop B in the header and the one of shop
\* A in the query was provisioned as shop B
C23_Witness ==
  /\ last.path \in AuthRoutes
  /\ getSessionTokenHeader(last) = "jwt.b"
  /\ getSessionTokenFromUrlParam(last) = <<"jwt.a">>
  /\ last.log = <<"tokenExchange", "storeSession", "next">>
  /\ last.state.shop = ShopB
  /\ last.status = 200


\* C24: a token exchange call is started only by the arrival of a request,
\* once per request; when it returns the request never goes back to the
\* exchange, and when it fails the request ends at once with the 500.
C24_NoAutomaticRetry ==
  [][\A i \in Slots :
       /\ (reqs'[i].pc = "tokenExchange" /\ reqs'[i] # reqs[i])
          => /\ reqs[i] = Idle
             /\ served' = served + 1
             /\ exchanges' = exchanges
       /\ (reqs[i].pc = "tokenExchange" /\ reqs'[i] # reqs[i])
          => /\ reqs'[i].pc # "tokenExchange"
             /\ served' = served
             /\ exchanges' = exchanges
                => /\ reqs'[i] = Idle
                   /\ last'.status = 500
                   /\ last'.log = <<"tokenExchange">>
       /\ CountOf(reqs'[i], "tokenExchange") <= 1
       /\ CountOf(last', "tokenExchange") <= 1]_vars

\* the only request so far made one exchange call, which failed, and is over
C24_Witness ==
  /\ served = 1
  /\ exchanges = 0
  /\ storage = <<>>
  /\ \A i \in Slots : reqs[i] = Idle
  /\ last.path \in AuthRoutes
  /\ last.status = 500
  /\ last.log = <<"tokenExchange">>


-----------------------------------------------------------------------------
(* C25 - C28: the entitlement value *)

\* C25: the hasActiveSubscription that a remote query yields is true exactly
\* when some subscription of the answered list is ACTIVE, or is PENDING with
\* the evaluation time before createdAt + trialDays days; for the gate of
\* index.js at the time it judged, for the status handler of part_001 at the
\* time it stamped the cache entry.
C25_EntitlementRule ==
  LET Grants(sub, t) ==
        \/ sub.status = "ACTIVE"
        \/ sub.status = "PENDING" /\ t < sub.createdAt + sub.trialDays * DAY
      Rule(subscriptions, t) ==
        \E k \in 1..Len(subscriptions) : Grants(subscriptions[k], t)
  IN /\ \A c \in Requests :
          c.checkedAt >= 0 =>
            (c.hasValidSubscription = "true" <=> Rule(c.subscriptions, c.checkedAt))
     /\ ( /\ Called(last, "cacheWrite")
          /\ CacheGet(SUBSCRIPTION_CACHE, last.state.shop).data = last.data )
        => ( last.data.hasActiveSubscription = "true"
             <=> Rule(last.data.subscriptions,
                      CacheGet(SUBSCRIPTION_CACHE, last.state.shop).timestamp) )


\* C26: a cache entry comes into being or changes only in the step in which
\* the fetch of a status request of that shop returns a list of
\* subscriptions, and then it is that answer stamped with the current time;
\* a fetch that throws or returns GraphQL errors answers false and leaves
\* the whole cache as it was.
C26_OnlySuccessWritesCache ==
  [][/\ \A i \in Slots :
          ( /\ reqs[i].pc = "statusFetch"
            /\ reqs'[i] = Idle
            /\ ~Called(last', "cacheWrite") )
          => /\ SUBSCRIPTION_CACHE' = SUBSCRIPTION_CACHE
             /\ last'.data.hasActiveSubscription = "false"
             /\ last'.data.message \in {"GraphQL query error",
                                        "Error checking billing - defaulting to false"}
     /\ \A s \in Shops :
          ( /\ SUBSCRIPTION_CACHE'[s] # SUBSCRIPTION_CACHE[s]
            /\ SUBSCRIPTION_CACHE'[s].present )
          => /\ \E i \in Slots : /\ reqs[i].pc = "statusFetch"
                                 /\ reqs[i].state.shop = s
                                 /\ reqs'[i] = Idle
             /\ Called(last', "cacheWrite")
             /\ last'.data.message = "Real-time billing check from Shopify API"
             /\ SUBSCRIPTION_CACHE'[s] = Entry(now, last'.data)]_vars

\* a status check read an entry past its 5 minutes, its fetch returned
\* GraphQL errors, and the entry is still the one it read
C26_Witness ==
  /\ last.path = "/api/billing/status"
  /\ last.data.message = "GraphQL query error"
  /\ last.cached.present
  /\ ~IsFresh(last.cached, last.readAt)
  /\ CacheGet(SUBSCRIPTION_CACHE, last.state.shop) = last.cached


\* C27: a status request that is answered from the cache finishes in the
\* step in which it arrives, without a fetch and without a write to the
\* cache, and its answer is the data of the shop's entry, which a
\* successful query of that shop stored.
C27_HitUsesCachedValue ==
  [][( /\ served' = served + 1
       /\ reqs' = reqs
       /\ Called(last', "cacheHit") )
     => /\ SUBSCRIPTION_CACHE' = SUBSCRIPTION_CACHE
        /\ ~Called(last', "statusFetch")
        /\ ~Called(last', "cacheWrite")
        /\ last'.status = 200
        /\ CacheGet(SUBSCRIPTION_CACHE, last'.state.shop).present
        /\ last'.data = CacheGet(SUBSCRIPTION_CACHE, last'.state.shop).data
        /\ last'.data.shop = last'.state.shop
        /\ last'.data.message = "Real-time billing check from Shopify API"
        /\ last'.data.hasActiveSubscription \in {"true", "false"}]_vars

\* a status request was answered true from an entry written earlier
C27_Witness ==
  /\ Called(last, "cacheHit")
  /\ last.readAt > last.cached.timestamp
  /\ last.data.hasActiveSubscription = "true"
  /\ last.data = CacheGet(SUBSCRIPTION_CACHE, last.state.shop).data


\* C28: whenever the enforcement middleware has called next() for a request,
\* ctx.state.hasActiveSubscription is a boolean, on the entitled path, the
\* exempt-route path and the fail-open error path alike.
C28_StateCarriesBoolean ==
  \A c \in Requests :
    Called(c, "gateNext") => c.state.hasActiveSubscription \in {"true", "false"}


-----------------------------------------------------------------------------
(* C29: who is being judged *)

\* C29: a request for which an enforcement middleware has queried the
\* entitlement, judged it or redirected on it, has passed
\* authenticateRequest first: its assertion decoded, next() was called, and
\* ctx.state carries the assertion's shop and a session of that shop.
C29_GateRunsAfterAuth ==
  \A c \in Requests :
    ( \/ Called(c, "subscriptionQuery")
      \/ Called(c, "billingQuery")
      \/ c.checkedAt >= 0 )
    => /\ decodeSessionToken(c.encodedSessionToken).ok
       /\ Called(c, "next")
       /\ c.state.shop = AssertedShop(c)
       /\ c.state.session.shop = c.state.shop


-----------------------------------------------------------------------------
(* C30: uninstall *)

\* C30: the step that processes an uninstall webhook with a valid digest
\* for shop s leaves no session of s in the store and no cache entry of s,
\* and touches no other shop's sessions; and while the store holds no
\* session of s, an authenticated request for s does not reach next()
\* without first calling the token exchange.
C30_UninstallInvalidatesWholesale ==
  [][/\ ( /\ served' = served + 1
          /\ reqs' = reqs
          /\ last'.path = "/webhooks/app/uninstalled"
          /\ last'.status = 200
          /\ last'.shop \in Shops )
        => /\ findSessionsByShop(storage', last'.shop) = <<>>
           /\ ~SUBSCRIPTION_CACHE'[last'.shop].present
           /\ last'.deleted = SUBSCRIPTION_CACHE[last'.shop]
           /\ \A s \in Shops \ {last'.shop} :
                findSessionsByShop(storage', s) = findSessionsByShop(storage, s)
     /\ LET c == IF reqs' = reqs THEN last' ELSE reqs'[LowestIdle]
        IN ( /\ served' = served + 1
             /\ c.path \in {"/api/billing/status", "/api/billing/cancel"}
             /\ c.shop \in Shops
             /\ SessionsOf(c.shop) = <<>> )
           => /\ c.pc = "tokenExchange"
              /\ c.found = NoSession
              /\ c.log = <<"tokenExchange">>]_vars

\* an uninstall webhook removed the cache entry and the session of shop A
\* while shop B keeps its session
C30_Witness ==
  /\ last.path = "/webhooks/app/uninstalled"
  /\ last.status = 200
  /\ last.shop = ShopA
  /\ last.deleted.present
  /\ SessionsOf(ShopA) = <<>>
  /\ ~SUBSCRIPTION_CACHE[ShopA].present
  /\ SessionsOf(ShopB) # <<>>


-----------------------------------------------------------------------------
(* C31: the session store by itself. Every store that puts and deletes of   *)
(* sessions under three ids can build is a state.                            *)

NextStore ==
  \/ /\ \E id \in {SessionIdServer(ShopA), SessionIdCallback(ShopA), SessionIdServer(ShopB)},
           shop \in Shops, accessToken \in {"shpat_1", "shpat_2"} :
          storage' = storeSession(storage, Session(id, shop, accessToken))
     /\ UNCHANGED <<build, timezone, SUBSCRIPTION_CACHE, now, reqs, last, served,
                    exchanges, handled>>
  \/ /\ \E id \in {SessionIdServer(ShopA), SessionIdCallback(ShopA), SessionIdServer(ShopB)} :
          storage' = deleteSession(storage, id)
     /\ storage' # storage
     /\ UNCHANGED <<build, timezone, SUBSCRIPTION_CACHE, now, reqs, last, served,
                    exchanges, handled>>

SpecStore == InitCache /\ [][NextStore]_vars

\* C31: on every store, for every session x and id: after storeSession(x),
\* loadSession(x.id) is x and the store holds one entry under x.id; after
\* deleteSession(id), loadSession(id) is absent; either operation leaves
\* loadSession of every other id as it was; and findSessionsByShop(s) is the
\* stored sessions whose shop is s, each once, and nothing else.
C31_SessionStoreContract ==
  LET Ids == {SessionIdServer(ShopA), SessionIdCallback(ShopA), SessionIdServer(ShopB),
              SessionIdPart001(ShopB)}
      Stored(store) == {store[k] : k \in 1..Len(store)}
  IN /\ \A id \in Ids, shop \in Shops, accessToken \in {"shpat_1", "shpat_2"} :
          LET x == Session(id, shop, accessToken)
              put == storeSession(storage, x)
          IN /\ loadSession(put, id) = x
             /\ Cardinality({k \in 1..Len(put) : put[k].id = id}) = 1
             /\ \A other \in Ids \ {id} :
                  loadSession(put, other) = loadSession(storage, other)
             /\ Stored(put) = {s \in Stored(storage) : s.id # id} \cup {x}
     /\ \A id \in Ids :
          LET del == deleteSession(storage, id)
          IN /\ loadSession(del, id) = NoSession
             /\ \A other \in Ids \ {id} :
                  loadSession(del, other) = loadSession(storage, other)
             /\ Stored(del) = {s \in Stored(storage) : s.id # id}
     /\ \A shop \in Shops \cup {""} :
          LET found == findSessionsByShop(storage, shop)
          IN /\ Stored(found) = {s \in Stored(storage) : s.shop = shop}
             /\ Cardinality(Stored(found)) = Len(found)
     /\ \A id \in Ids :
          loadSession(storage, id) # NoSession
            <=> \E s \in Stored(storage) : s.id = id /\ s = loadSession(storage, id)

\* a store of three sessions, two of them of shop A, with an entry to replace
C31_Witness ==
  /\ Len(storage) = 3
  /\ Len(findSessionsByShop(storage, ShopA)) = 2
  /\ loadSession(storage, SessionIdServer(ShopA)).accessToken = "shpat_2"
  /\ last = Idle
  /\ served = 0


-----------------------------------------------------------------------------
(* C32, C33: requests in flight across an invalidation *)

\* C32: while the latest finished request is a billing callback, a
\* cancellation or an uninstall that deleted the cache entry of shop s, the
\* return of a fetch that a status check of s started before that delete
\* does not put an entry for s into the cache.
C32_NoStaleWriteAfterInvalidation ==
  [][\A i \in Slots, s \in Shops :
       ( /\ last.deletedAt >= 0
         /\ \/ last.path = "/api/billing/callback" /\ QueryGet(last.query, "shop") = <<s>>
            \/ last.path = "/api/billing/cancel" /\ last.state.shop = s
            \/ last.path = "/webhooks/app/uninstalled" /\ last.shop = s
         /\ reqs[i].pc = "statusFetch"
         /\ reqs[i].state.shop = s
         /\ reqs[i].readAt < last.deletedAt
         /\ reqs'[i] = Idle )
       => ~SUBSCRIPTION_CACHE'[s].present]_vars


\* C33: while the latest finished request is an uninstall webhook that was
\* processed for shop s, the return of the token exchange of a request for
\* s that was already waiting for it when the webhook ran stores no session
\* for s.
C33_NoSessionFromBeforeUninstall ==
  [][\A i \in Slots, s \in Shops :
       ( /\ last.path = "/webhooks/app/uninstalled"
         /\ last.status = 200
         /\ last.shop = s
         /\ reqs[i].pc = "tokenExchange"
         /\ reqs[i].shop = s
         /\ i \in last.exchanging
         /\ reqs'[i] # reqs[i] )
       => findSessionsByShop(storage', s) = <<>>]_vars


-----------------------------------------------------------------------------
(* C34 - C39: redirects, webhooks and failures *)

\* C34: the redirect that checkBillingOnAppLoad answers a request to / with
\* targets /?billing=required&shop=<shop>, and the request that follows it
\* passes the middleware to the main handler without a remote query and is
\* not redirected again, so a chain of these redirects has length one.
C34_RedirectCannotLoop ==
  [][LET c == IF reqs' = reqs THEN last' ELSE reqs'[LowestIdle]
     IN ( /\ last.path = "/"
          /\ last.status = 302
          /\ served' = served + 1
          /\ c.path = "/"
          /\ c.query = QueryOfParams(UrlParams(last.location)) )
        => /\ last.location = <<"/", "?", "billing", "=", "required", "&", "shop", "=">>
                                \o QueryGet(last.query, "shop")
           /\ reqs' = reqs
           /\ Called(c, "gateNext")
           /\ ~Called(c, "billingQuery")
           /\ c.status = 200]_vars

C34_Witness ==
  /\ served = MaxBillingRequests + 1
  /\ last.path = "/"
  /\ last.query = << <<"billing", <<"required">>>>, <<"shop", <<ShopA>>>> >>
  /\ Called(last, "gateNext")
  /\ last.status = 200


\* C35: the request that the bounce page makes for the shopify-reload
\* target of the latest bounce, without an authorization header, is bounced
\* again exactly when its id_token is absent or does not decode; with a
\* token that decodes it is passed to next() at once, or waits for its token
\* exchange and is then passed to next() or answered 500, never bounced.
C35_BounceRetryProgresses ==
  [][/\ LET c == IF reqs' = reqs THEN last' ELSE reqs'[LowestIdle]
        IN ( /\ IsBounce(last)
             /\ served' = served + 1
             /\ c.authorization = NoHeader
             /\ c.path = Flatten(UrlPath(ReloadTarget(last.location)))
             /\ SelectSeq(c.query, LAMBDA e : e[1] # "id_token")
                  = QueryOfParams(UrlParams(ReloadTarget(last.location))) )
           => IF decodeSessionToken(QueryGet(c.query, "id_token")).ok
              THEN ~IsBounce(c) /\ (Called(c, "next") \/ c.pc = "tokenExchange")
              ELSE IsBounce(c)
     /\ \A i \in Slots :
          LET d == IF reqs'[i] = Idle THEN last' ELSE reqs'[i]
          IN ( /\ reqs[i].pc = "tokenExchange"
               /\ reqs[i].authorization = NoHeader
               /\ reqs'[i] # reqs[i] )
             => /\ ~IsBounce(d)
                /\ Called(d, "next") \/ IsExchange500(d)]_vars

C35_Witness ==
  /\ last.authorization = NoHeader
  /\ last.query = << <<"shop", <<ShopA>>>>, <<"id_token", <<"jwt.a">>>> >>
  /\ Called(last, "tokenExchange")
  /\ Called(last, "next")


\* C36: the step that handles a compliance webhook answers 200 or 401 and
\* leaves the session store and the cache as they were; the answer of each
\* of the three webhooks is 200 when the HMAC header and the raw body are
\* both present and the digest of the body equals the header, and 401 in
\* every other case, a throw included.
C36_ComplianceWebhooksOnlyVerify ==
  [][( /\ served' = served + 1
       /\ last'.path \in CompliancePaths
       /\ last' # last )
     => /\ last'.status \in {200, 401}
        /\ storage' = storage
        /\ SUBSCRIPTION_CACHE' = SUBSCRIPTION_CACHE
        /\ \A path \in CompliancePaths, hmacHeader \in WebhookHeaders,
              body \in WebhookBodies, threw \in BOOLEAN :
             complianceWebhook(NewCtx(path, NoHeader, <<>>), hmacHeader, body, threw).status
               = IF /\ ~threw
                    /\ hmacHeader # ""
                    /\ body # ""
                    /\ Digest(body) = hmacHeader
                 THEN 200 ELSE 401]_vars

\* a compliance webhook was answered 200 while the store held a session and
\* the cache an entry
C36_Witness ==
  /\ last.path \in CompliancePaths
  /\ last.status = 200
  /\ storage # <<>>
  /\ SUBSCRIPTION_CACHE[ShopA].present


\* C37: in every state, an uninstall webhook whose digest does not equal
\* the header (the header missing included) or whose body JSON.parse
\* rejects (the body missing included) is answered 401 or 500, never 200,
\* and leaves the sessions and the cache entry of every shop as they are.
C37_RejectedUninstallDeletesNothing ==
  \A hmacOk \in BOOLEAN, body \in UninstallBodies :
    (~hmacOk \/ ~body.json)
    => LET out == uninstallWebhook(NewCtx("/webhooks/app/uninstalled", NoHeader, <<>>),
                                   hmacOk, body)
       IN /\ out.ctx.status \in {401, 500}
          /\ out.storage = storage
          /\ out.cache = SUBSCRIPTION_CACHE

\* an uninstall webhook was rejected while the store held a session and the
\* cache an entry of shop A
C37_Witness ==
  /\ last.path = "/webhooks/app/uninstalled"
  /\ last.status \in {401, 500}
  /\ SessionsOf(ShopA) # <<>>
  /\ SUBSCRIPTION_CACHE[ShopA].present


\* C38: the step that answers a cancellation with 400 or 500 leaves the
\* cache as it was; and from the answer of its fetch on, the handler of that
\* request returns the cache unchanged when the fetch threw (500) or the
\* mutation answered userErrors (400), and deletes the entry of the shop
\* only on the path that answers success.
C38_FailedCancelKeepsCache ==
  [][( /\ last' # last
       /\ last'.path = "/api/billing/cancel"
       /\ last'.status \in {400, 500} )
     => /\ SUBSCRIPTION_CACHE' = SUBSCRIPTION_CACHE
        /\ \A result \in {"threw", "userErrors", "ok"} :
             LET awaiting == [last' EXCEPT !.status = 404, !.body = "", !.pc = "cancelFetch"]
                 out == afterCancelFetch(awaiting, result)
             IN /\ out.ctx.status = CASE result = "threw" -> 500
                                      [] result = "userErrors" -> 400
                                      [] OTHER -> 200
                /\ out.cache = IF out.ctx.status = 200
                               THEN CacheDelete(SUBSCRIPTION_CACHE, last'.state.shop)
                               ELSE SUBSCRIPTION_CACHE]_vars

\* a cancellation was answered 500 while the cache holds the entry of its shop
C38_Witness ==
  /\ last.path = "/api/billing/cancel"
  /\ last.status = 500
  /\ last.state.shop = ShopA
  /\ SUBSCRIPTION_CACHE[ShopA].present


\* C39: a request to / that carries no shop parameter, or the shop of
\* which has no offline session with an access token in the store, is
\* passed by checkBillingOnAppLoad to next() in the step of its arrival,
\* without a remote query and without a redirect.
C39_UnprovisionedShopsPass ==
  [][LET c == IF reqs' = reqs THEN last' ELSE reqs'[LowestIdle]
         shop == QueryGet(c.query, "shop")
     IN ( /\ served' = served + 1
          /\ c.path = "/"
          /\ \/ ~Truthy(shop)
             \/ ~\E k \in 1..Len(storage) : /\ storage[k].shop = shop[1]
                                            /\ ~storage[k].isOnline
                                            /\ storage[k].accessToken # "" )
        => /\ reqs' = reqs
           /\ Called(c, "gateNext")
           /\ ~Called(c, "billingQuery")
           /\ c.status # 302
           /\ c.location = <<>>]_vars

\* a request to / for shop A was passed on while the store held only a
\* session of the shop without access token
C39_Witness ==
  /\ last.path = "/"
  /\ last.query = << <<"shop", <<ShopA>>>> >>
  /\ Called(last, "gateNext")
  /\ ~Called(last, "billingQuery")
  /\ last.status = 200
  /\ SessionsOf(ShopA) # <<>>
  /\ \A k \in 1..Len(storage) : storage[k].accessToken = ""

====
